---- MODULE Spec2Model ----
(***************************************************************************)
(* Model of server/atmosphere.py: the script that trains a dummy           *)
(* regressor, reads eight planet parameters from the console, predicts a   *)
(* ten-gas composition, normalizes it to percentages and writes a report.  *)
(*                                                                         *)
(* Numbers.  A float is modelled exactly: a finite value is a fraction     *)
(* num/den with den > 0, and the three non-finite IEEE values are kept as  *)
(* values of their own (nan, inf, -inf).  The raw vectors enumerated below *)
(* have small integer components, for which 100*raw and the sum are exact  *)
(* in binary64 and every quotient is further from 60, 20 and 5 than one    *)
(* rounding step, so the comparisons of the exact value and of the float   *)
(* agree.  The two-decimal text of a percentage ({percent:.2f}) is not     *)
(* modelled: a report line carries the percentage itself.                  *)
(***************************************************************************)
EXTENDS Integers, Sequences, FiniteSets

VARIABLES
    pc,          \* position of the script
    out,         \* lines written to the console so far, in order
    artifact,    \* content of atmo_percent_predictor.pkl: "none", "earlier", "this"
    typed,       \* entries read from the console so far, in order
    vals,        \* values of the dict display evaluated so far in get_input
    user_input,  \* the mapping returned by get_input: sequence of [key, value]
    df,          \* the one-row table: [columns, row]
    model,       \* the model object loaded from the artifact, or "none"
    raw_output,  \* the raw prediction (10 numbers), or << >>
    normalized,  \* the normalized prediction (10 values), or << >>
    err          \* the exception that ended the run, or "none"

vars == <<pc, out, artifact, typed, vals, user_input, df, model, raw_output,
          normalized, err>>

----------------------------------------------------------------------------
(* Module-level constants of the script *)

GASES == <<"CO2", "N2", "O2", "H2O", "CH4", "H2", "He", "SO2", "O3", "NH3">>

ESSENTIAL_FEATURES ==
    <<"pl_dens", "pl_orbper", "pl_eqtstr", "st_rad", "st_lum",
      "pl_bmassj", "pl_ratror", "st_met">>

\* The dict display of get_input: its keys and the prompt of each value, in
\* the order the display lists (and evaluates) them.  (The superscript of
\* the first prompt is written 3.)  First a display whose first two keys
\* are exchanged, used to test the properties below.
GetInputFieldsSwapped ==
    << [key |-> "pl_orbper", prompt |-> "Orbital Period (days): "],
       [key |-> "pl_dens",   prompt |-> "Planet Density (g/cm3): "],
       [key |-> "pl_eqtstr", prompt |-> "Equilibrium Temperature (K): "],
       [key |-> "st_rad",    prompt |-> "Stellar Radius (Solar Radii): "],
       [key |-> "st_lum",    prompt |-> "Stellar Luminosity (Solar Units): "],
       [key |-> "pl_bmassj", prompt |-> "Planet Mass (Jupiter Masses): "],
       [key |-> "pl_ratror", prompt |-> "Planet-to-Star Radius Ratio: "],
       [key |-> "st_met",    prompt |-> "Stellar Metallicity [Fe/H]: "] >>

GetInputFields ==
    << [key |-> "pl_dens",   prompt |-> "Planet Density (g/cm3): "],
       [key |-> "pl_orbper", prompt |-> "Orbital Period (days): "],
       [key |-> "pl_eqtstr", prompt |-> "Equilibrium Temperature (K): "],
       [key |-> "st_rad",    prompt |-> "Stellar Radius (Solar Radii): "],
       [key |-> "st_lum",    prompt |-> "Stellar Luminosity (Solar Units): "],
       [key |-> "pl_bmassj", prompt |-> "Planet Mass (Jupiter Masses): "],
       [key |-> "pl_ratror", prompt |-> "Planet-to-Star Radius Ratio: "],
       [key |-> "st_met",    prompt |-> "Stellar Metallicity [Fe/H]: "] >>

----------------------------------------------------------------------------
(* Console lines *)

Text(s) == [kind |-> "text", text |-> s]
PromptLine(s) == [kind |-> "prompt", text |-> s]
Citation(s) == [kind |-> "cite", text |-> s]

TrainedLine == Text("Dummy atmospheric composition model trained and saved.")
EnterLine == Text("Enter Essential Exoplanet Parameters:")
ReportTitle == Text("Atmospheric Composition Report")
Border == Text("====================================")
ReferencesTitle == Text(" Referenced Research Papers:")

\* The four statements at column 0 after the body of generate_report; each
\* line is kept by its authors and year, without the title.
CitationLines ==
    << Citation("Armstrong et al., 2020"),
       Citation("Seager & Deming, 2019"),
       Citation("Lopez & Fortney, 2013"),
       Citation("Madhusudhan et al., 2014") >>

----------------------------------------------------------------------------
(* float(input(...)): the text typed is a sequence of characters *)

Digits == {"0", "1", "2", "3", "4", "5", "6", "7", "8", "9"}

DigitValue(c) ==
    CASE c = "0" -> 0 [] c = "1" -> 1 [] c = "2" -> 2 [] c = "3" -> 3
      [] c = "4" -> 4 [] c = "5" -> 5 [] c = "6" -> 6 [] c = "7" -> 7
      [] c = "8" -> 8 [] c = "9" -> 9

RECURSIVE Pow10(_)
Pow10(n) == IF n = 0 THEN 1 ELSE 10 * Pow10(n - 1)

\* the text without its sign
Unsigned(s) == IF Len(s) > 0 /\ s[1] \in {"-", "+"} THEN Tail(s) ELSE s

DotPositions(s) == {i \in 1..Len(s) : s[i] = "."}

\* float() accepts [sign] digits [. digits] with at least one digit (over
\* the characters used here: sign, digits, dot and letters).
Parseable(s) ==
    LET b == Unsigned(s)
        dots == DotPositions(b)
    IN  /\ Cardinality(dots) <= 1
        /\ \A i \in (1..Len(b)) \ dots : b[i] \in Digits
        /\ Len(b) - Cardinality(dots) >= 1

RECURSIVE DigitsValue(_, _)
DigitsValue(s, acc) ==
    IF s = << >> THEN acc
    ELSE IF s[1] = "." THEN DigitsValue(Tail(s), acc)
    ELSE DigitsValue(Tail(s), 10 * acc + DigitValue(s[1]))

\* the value of a parseable text, as the fraction num/den
ParseFloat(s) ==
    LET b == Unsigned(s)
        dots == DotPositions(b)
        sign == IF Len(s) > 0 /\ s[1] = "-" THEN -1 ELSE 1
        places == IF dots = {} THEN 0 ELSE Len(b) - (CHOOSE i \in dots : TRUE)
    IN  [num |-> sign * DigitsValue(b, 0), den |-> Pow10(places)]

----------------------------------------------------------------------------
(* Floating-point values and the arithmetic the script does on them *)

Fin(n, d) == [kind |-> "fin", num |-> n, den |-> d]
NaN == [kind |-> "nan", num |-> 0, den |-> 0]
PosInf == [kind |-> "inf", num |-> 1, den |-> 0]
NegInf == [kind |-> "-inf", num |-> -1, den |-> 0]

\* n / d on numpy floats: division by zero raises nothing (numpy only
\* warns) and gives nan for 0/0 and a signed infinity otherwise.
Div(n, d) ==
    IF d > 0 THEN Fin(n, d)
    ELSE IF d < 0 THEN Fin(-n, -d)
    ELSE IF n = 0 THEN NaN
    ELSE IF n > 0 THEN PosInf
    ELSE NegInf

\* v > t for an integer t: every comparison with nan is false
Gt(v, t) ==
    CASE v.kind = "fin"  -> v.num > t * v.den
      [] v.kind = "inf"  -> TRUE
      [] v.kind = "-inf" -> FALSE
      [] v.kind = "nan"  -> FALSE

\* v <= t for an integer t
Le(v, t) ==
    CASE v.kind = "fin"  -> v.num <= t * v.den
      [] v.kind = "inf"  -> FALSE
      [] v.kind = "-inf" -> TRUE
      [] v.kind = "nan"  -> FALSE

\* v >= t for an integer t
Ge(v, t) ==
    CASE v.kind = "fin"  -> v.num >= t * v.den
      [] v.kind = "inf"  -> TRUE
      [] v.kind = "-inf" -> FALSE
      [] v.kind = "nan"  -> FALSE

RECURSIVE SumSeq(_)
SumSeq(s) == IF s = << >> THEN 0 ELSE s[1] + SumSeq(Tail(s))

\* Variants of the normalization used to test the properties below.
NormalizerFraction(raw) ==
    [i \in 1..Len(raw) |-> Div(raw[i], SumSeq(raw))]

NormalizerSkipped(raw) ==
    [i \in 1..Len(raw) |-> Fin(raw[i], 1)]

NormalizerGuarded(raw) ==
    IF SumSeq(raw) = 0 THEN [i \in 1..Len(raw) |-> Fin(0, 1)]
    ELSE [i \in 1..Len(raw) |-> Div(100 * raw[i], SumSeq(raw))]

\* normalized = 100 * raw_output / np.sum(raw_output)
Normalizer(raw) ==
    [i \in 1..Len(raw) |-> Div(100 * raw[i], SumSeq(raw))]

\* Variants of the bucket chain used to test the properties below.
DescriptorNonStrict(percent) ==
    IF Ge(percent, 60) THEN "Dominant gas"
    ELSE IF Ge(percent, 20) THEN "Major component"
    ELSE IF Ge(percent, 5) THEN "Minor component"
    ELSE "Trace presence"

DescriptorAscending(percent) ==
    IF Le(percent, 5) THEN "Trace presence"
    ELSE IF Le(percent, 20) THEN "Minor component"
    ELSE IF Le(percent, 60) THEN "Major component"
    ELSE "Dominant gas"

\* the if / elif chain of generate_report
Descriptor(percent) ==
    IF Gt(percent, 60) THEN "Dominant gas"
    ELSE IF Gt(percent, 20) THEN "Major component"
    ELSE IF Gt(percent, 5) THEN "Minor component"
    ELSE "Trace presence"

GasLine(gas, percent) ==
    [kind |-> "gas", gas |-> gas, percent |-> percent,
     descriptor |-> Descriptor(percent)]

Min(a, b) == IF a < b THEN a ELSE b

\* everything generate_report writes: zip(GASES, percentages) stops at the
\* shorter of the two
ReportLines(percentages) ==
    <<ReportTitle, Border>>
    \o [i \in 1..Min(Len(GASES), Len(percentages)) |->
            GasLine(GASES[i], percentages[i])]
    \o <<Border, ReferencesTitle>>

----------------------------------------------------------------------------
(* Inputs *)

\* Texts a user types at a prompt: two that float() accepts and three that
\* it rejects (letters, an empty line, two dots).
Entries ==
    { <<"1">>,
      <<"-", "2", ".", "5">>,
      <<"a", "b", "c">>,
      << >>,
      <<"1", ".", "2", ".", "3">> }

\* What model.predict can return for the forest train_dummy_model fits: its
\* label rows are positive and sum to 100, and a prediction averages rows.
PredictOutcomes ==
    { <<61, 21, 6, 5, 2, 1, 1, 1, 1, 1>>,
      <<10, 10, 10, 10, 10, 10, 10, 10, 10, 10>>,
      <<30, 25, 20, 15, 4, 2, 1, 1, 1, 1>> }

\* Raw vectors for the normalization and the report taken as functions of
\* any 10-vector.
MaxRaw == 3
FreeGases == 3

Scenario98 == <<70, 5, 5, 5, 5, 2, 2, 2, 1, 1>>
ZeroVector == <<0, 0, 0, 0, 0, 0, 0, 0, 0, 0>>

ScenarioVectors ==
    { Scenario98,
      ZeroVector,
      <<60, 20, 5, 15, 0, 0, 0, 0, 0, 0>>,
      <<1, -1, 0, 0, 0, 0, 0, 0, 0, 0>>,
      <<-10, 80, 30, 0, 0, 0, 0, 0, 0, 0>>,
      <<-3, -1, -1, 0, 0, 0, 0, 0, 0, 0>> }

\* v with its components moved k places round the 10 gases
Rotate(v, k) == [i \in 1..Len(v) |-> v[((i - 1 + k) % Len(v)) + 1]]

FamilyVectors ==
    { [i \in 1..Len(GASES) |-> IF i <= FreeGases THEN f[i] ELSE 0] :
        f \in [1..FreeGases -> (-MaxRaw)..MaxRaw] }

RawVectors ==
    { Rotate(v, k) : v \in ScenarioVectors \cup FamilyVectors,
                     k \in 0..(Len(GASES) - 1) }

----------------------------------------------------------------------------
(* The script, statement by statement *)

Init ==
    /\ pc = "module"
    /\ out = << >>
    /\ artifact \in {"none", "earlier"}
    /\ typed = << >>
    /\ vals = << >>
    /\ user_input = << >>
    /\ df = [columns |-> << >>, row |-> << >>]
    /\ model = "none"
    /\ raw_output = << >>
    /\ normalized = << >>
    /\ err = "none"

\* Running the file top to bottom: the imports, the definitions and the four
\* statements at column 0 that follow the body of generate_report.
ModuleLevel ==
    /\ pc = "module"
    /\ out' = out \o CitationLines
    /\ pc' = "train"
    /\ UNCHANGED <<artifact, typed, vals, user_input, df, model, raw_output,
                   normalized, err>>

\* A trainer that is commented out, as the comment above the call suggests.
TrainSkipped ==
    /\ pc = "train"
    /\ pc' = "get_input"
    /\ UNCHANGED <<out, artifact, typed, vals, user_input, df, model,
                   raw_output, normalized, err>>

\* train_dummy_model(): fit, joblib.dump over the fixed file name, message
train_dummy_model ==
    /\ pc = "train"
    /\ artifact' = "this"
    /\ out' = Append(out, TrainedLine)
    /\ pc' = "get_input"
    /\ UNCHANGED <<typed, vals, user_input, df, model, raw_output,
                   normalized, err>>

\* get_input(): its first statement
get_input_begin ==
    /\ pc = "get_input"
    /\ out' = Append(out, EnterLine)
    /\ pc' = "prompt"
    /\ UNCHANGED <<artifact, typed, vals, user_input, df, model, raw_output,
                   normalized, err>>

\* the mapping the dict display builds from the values evaluated
MakeDict(fields, values) ==
    [i \in 1..Len(fields) |-> [key |-> fields[i].key, value |-> values[i]]]

\* A collector that asks again after a bad entry.
get_input_prompt_retry(entry) ==
    /\ pc = "prompt"
    /\ Len(vals) < Len(GetInputFields)
    /\ out' = Append(out, PromptLine(GetInputFields[Len(vals) + 1].prompt))
    /\ typed' = Append(typed, entry)
    /\ IF Parseable(entry)
         THEN /\ vals' = Append(vals, ParseFloat(entry))
              /\ IF Len(vals') = Len(GetInputFields)
                   THEN /\ user_input' = MakeDict(GetInputFields, vals')
                        /\ pc' = "frame"
                   ELSE UNCHANGED <<user_input, pc>>
         ELSE UNCHANGED <<vals, user_input, pc>>
    /\ UNCHANGED <<artifact, df, model, raw_output, normalized, err>>

\* get_input(): the next float(input(prompt)) of the dict display.  A text
\* float() rejects raises ValueError, which nothing catches; after the last
\* value the mapping is built and returned.
get_input_prompt(entry) ==
    /\ pc = "prompt"
    /\ Len(vals) < Len(GetInputFields)
    /\ out' = Append(out, PromptLine(GetInputFields[Len(vals) + 1].prompt))
    /\ typed' = Append(typed, entry)
    /\ IF Parseable(entry)
         THEN /\ vals' = Append(vals, ParseFloat(entry))
              /\ err' = err
              /\ IF Len(vals') = Len(GetInputFields)
                   THEN /\ user_input' = MakeDict(GetInputFields, vals')
                        /\ pc' = "frame"
                   ELSE UNCHANGED <<user_input, pc>>
         ELSE /\ err' = "ValueError"
              /\ pc' = "error"
              /\ UNCHANGED <<vals, user_input>>
    /\ UNCHANGED <<artifact, df, model, raw_output, normalized>>

\* df = pd.DataFrame([user_input]): one row, columns in the mapping's order
make_frame ==
    /\ pc = "frame"
    /\ df' = [columns |-> [i \in 1..Len(user_input) |-> user_input[i].key],
              row |-> [i \in 1..Len(user_input) |-> user_input[i].value]]
    /\ pc' = "load"
    /\ UNCHANGED <<out, artifact, typed, vals, user_input, model, raw_output,
                   normalized, err>>

\* A loader that falls back to a built-in model when the file is missing.
load_model_default ==
    /\ pc = "load"
    /\ model' = IF artifact = "none" THEN "default" ELSE artifact
    /\ pc' = "predict"
    /\ UNCHANGED <<out, artifact, typed, vals, user_input, df, raw_output,
                   normalized, err>>

\* model = joblib.load('atmo_percent_predictor.pkl'): opening a file that is
\* not there raises FileNotFoundError, which nothing catches
load_model ==
    /\ pc = "load"
    /\ IF artifact = "none"
         THEN /\ err' = "FileNotFoundError"
              /\ pc' = "error"
              /\ UNCHANGED model
         ELSE /\ model' = artifact
              /\ pc' = "predict"
              /\ UNCHANGED err
    /\ UNCHANGED <<out, artifact, typed, vals, user_input, df, raw_output,
                   normalized>>

\* raw_output = model.predict(df)[0]
predict ==
    /\ pc = "predict"
    /\ raw_output' \in PredictOutcomes
    /\ pc' = "normalize"
    /\ UNCHANGED <<out, artifact, typed, vals, user_input, df, model,
                   normalized, err>>

\* normalized = 100 * raw_output / np.sum(raw_output)
normalize ==
    /\ pc = "normalize"
    /\ normalized' = Normalizer(raw_output)
    /\ pc' = "report"
    /\ UNCHANGED <<out, artifact, typed, vals, user_input, df, model,
                   raw_output, err>>

\* generate_report(normalized), the last statement of the script
generate_report ==
    /\ pc = "report"
    /\ out' = out \o ReportLines(normalized)
    /\ pc' = "done"
    /\ UNCHANGED <<artifact, typed, vals, user_input, df, model, raw_output,
                   normalized, err>>

Next ==
    \/ ModuleLevel
    \/ train_dummy_model
    \/ get_input_begin
    \/ \E entry \in Entries : get_input_prompt(entry)
    \/ make_frame
    \/ load_model
    \/ predict
    \/ normalize
    \/ generate_report

Spec == Init /\ [][Next]_vars

----------------------------------------------------------------------------
(* The script with the file system as a second party: between the dump and *)
(* the load the script blocks on the console, and the file can go away.    *)

artifact_removed ==
    /\ pc \in {"get_input", "prompt", "frame", "load"}
    /\ artifact # "none"
    /\ artifact' = "none"
    /\ UNCHANGED <<pc, out, typed, vals, user_input, df, model, raw_output,
                   normalized, err>>

NextEnv == Next \/ artifact_removed

SpecEnv == Init /\ [][NextEnv]_vars

----------------------------------------------------------------------------
(* The normalization and the report as functions of any raw 10-vector: the *)
(* script stands before its normalization statement, after a run in which  *)
(* every entry typed was "1".                                              *)

CanonicalTyped == [i \in 1..Len(GetInputFields) |-> <<"1">>]
CanonicalVals == [i \in 1..Len(GetInputFields) |-> ParseFloat(<<"1">>)]

InitFn ==
    /\ pc = "normalize"
    /\ out = CitationLines \o <<TrainedLine, EnterLine>>
             \o [i \in 1..Len(GetInputFields) |->
                    PromptLine(GetInputFields[i].prompt)]
    /\ artifact = "this"
    /\ typed = CanonicalTyped
    /\ vals = CanonicalVals
    /\ user_input = MakeDict(GetInputFields, CanonicalVals)
    /\ df = [columns |-> [i \in 1..Len(GetInputFields) |-> GetInputFields[i].key],
             row |-> CanonicalVals]
    /\ model = "this"
    /\ raw_output \in RawVectors
    /\ normalized = << >>
    /\ err = "none"

NextFn == normalize \/ generate_report

SpecFn == InitFn /\ [][NextFn]_vars

----------------------------------------------------------------------------
(* Properties *)

IsGas(line) == line.kind = "gas"
IsCite(line) == line.kind = "cite"
IsPrompt(line) == line.kind = "prompt"

GasLines == SelectSeq(out, IsGas)
PromptLines == SelectSeq(out, IsPrompt)

\* positions of the lines generate_report writes
ReportPositions ==
    {i \in 1..Len(out) :
        out[i].kind = "gas" \/ out[i] \in {ReportTitle, Border, ReferencesTitle}}

\* C1: in a run that completes, the training confirmation comes first, then
\* the report table, then the four citation lines; no citation line comes
\* before the training confirmation or before the report.
C1_OutputOrder ==
    pc = "done" =>
        /\ Len(SelectSeq(out, IsCite)) = Len(CitationLines)
        /\ \A i \in 1..Len(out) :
              IsCite(out[i]) => \E j \in 1..(i - 1) : out[j] = TrainedLine
        /\ \A i, j \in 1..Len(out) :
              (IsCite(out[i]) /\ j \in ReportPositions) => j < i

\* C2: a raw vector with strictly positive sum normalizes to finite values
\* that sum to exactly 100, negative components included.
C2_NormalizedSumsTo100 ==
    (normalized # << >> /\ SumSeq(raw_output) > 0) =>
        /\ Len(normalized) = Len(raw_output)
        /\ \A i \in 1..Len(normalized) :
              /\ normalized[i].kind = "fin"
              /\ normalized[i].den = normalized[1].den
              /\ normalized[i].den > 0
        /\ SumSeq([i \in 1..Len(normalized) |-> normalized[i].num])
              = 100 * normalized[1].den

C2_Witness ==
    /\ normalized # << >>
    /\ SumSeq(raw_output) > 0
    /\ \E i \in 1..Len(raw_output) : raw_output[i] < 0

\* C3: every gas line of the report carries the bucket its percentage p
\* alone decides, with strict comparisons: p > 60 Dominant, else p > 20
\* Major, else p > 5 Minor, else Trace; the same for every gas and position.
C3_BucketByThreshold ==
    /\ \A i \in 1..Len(GasLines) :
          LET p == GasLines[i].percent
              d == GasLines[i].descriptor
          IN  /\ d \in {"Dominant gas", "Major component",
                        "Minor component", "Trace presence"}
              /\ p.kind = "fin" =>
                    /\ (d = "Dominant gas") <=> (p.num > 60 * p.den)
                    /\ (d = "Major component") <=>
                          (p.num <= 60 * p.den /\ p.num > 20 * p.den)
                    /\ (d = "Minor component") <=>
                          (p.num <= 20 * p.den /\ p.num > 5 * p.den)
                    /\ (d = "Trace presence") <=> (p.num <= 5 * p.den)
    /\ \A i, j \in 1..Len(GasLines) :
          GasLines[i].percent = GasLines[j].percent
             => GasLines[i].descriptor = GasLines[j].descriptor
    /\ pc = "done" => [i \in 1..Len(GasLines) |-> GasLines[i].gas] = GASES

C3_Witness ==
    /\ pc = "done"
    /\ \E i, j, k \in 1..Len(GasLines) :
          /\ GasLines[i].percent = Fin(6000, 100)
          /\ GasLines[i].descriptor = "Major component"
          /\ GasLines[j].percent = Fin(2000, 100)
          /\ GasLines[j].descriptor = "Minor component"
          /\ GasLines[k].percent = Fin(500, 100)
          /\ GasLines[k].descriptor = "Trace presence"

\* C4: an entry at the k-th prompt that is not a number ends the run with an
\* error at that prompt: the prompt is not issued again, no later prompt is
\* issued, the model is not loaded and no report line is written.
C4_BadEntryTerminates ==
    /\ (typed # << >> /\ ~Parseable(typed[Len(typed)])) =>
          /\ pc = "error"
          /\ err = "ValueError"
    /\ err = "ValueError" =>
          /\ pc = "error"
          /\ ~ENABLED Next
          /\ typed # << >>
          /\ ~Parseable(typed[Len(typed)])
          /\ \A i \in 1..(Len(typed) - 1) : Parseable(typed[i])
          /\ Len(typed) <= Len(ESSENTIAL_FEATURES)
          /\ PromptLines = [i \in 1..Len(typed) |->
                               PromptLine(GetInputFields[i].prompt)]
          /\ model = "none"
          /\ user_input = << >>
          /\ raw_output = << >>
          /\ ReportPositions = {}

C4_Witness ==
    /\ err = "ValueError"
    /\ Len(typed) = 4
    /\ typed[4] = <<"a", "b", "c">>

Descriptors == [i \in 1..Len(GasLines) |-> GasLines[i].descriptor]

\* the bucket the claim gives raw component r of a vector with sum s > 0
BucketOfRaw(r, s) ==
    IF 100 * r > 60 * s THEN "Dominant gas"
    ELSE IF 100 * r > 20 * s THEN "Major component"
    ELSE IF 100 * r > 5 * s THEN "Minor component"
    ELSE "Trace presence"

\* C5: the bucket written for gas i is decided on 100*raw_i/sum(raw), not on
\* raw_i; raw [70,5,5,5,5,2,2,2,1,1] is reported as Dominant, four times
\* Minor, five times Trace.
C5_BucketOnNormalized ==
    /\ (pc = "done" /\ SumSeq(raw_output) > 0) =>
          /\ Len(GasLines) = Len(raw_output)
          /\ \A i \in 1..Len(GasLines) :
                GasLines[i].descriptor
                    = BucketOfRaw(raw_output[i], SumSeq(raw_output))
    /\ (pc = "done" /\ raw_output = Scenario98) =>
          Descriptors =
              <<"Dominant gas",
                "Minor component", "Minor component", "Minor component",
                "Minor component",
                "Trace presence", "Trace presence", "Trace presence",
                "Trace presence", "Trace presence">>

C5_Witness ==
    /\ pc = "done"
    /\ raw_output = Scenario98
    /\ Len(GasLines) = Len(GASES)

\* C6: an all-zero raw vector normalizes to a non-finite value in every
\* component without an error: the run goes on to write the report.
C6_ZeroVectorNonFinite ==
    raw_output = ZeroVector =>
        /\ err = "none"
        /\ pc # "error"
        /\ pc = "normalize" => ENABLED normalize
        /\ pc = "report" => ENABLED generate_report
        /\ normalized # << >> =>
              /\ Len(normalized) = Len(GASES)
              /\ \A i \in 1..Len(normalized) :
                    normalized[i].kind \in {"nan", "inf", "-inf"}
        /\ pc = "done" => Len(GasLines) = Len(GASES)

C6_Witness ==
    /\ raw_output = ZeroVector
    /\ pc = "done"
    /\ normalized = [i \in 1..Len(GASES) |-> NaN]
    /\ Len(out) > 0 /\ out[Len(out)] = ReferencesTitle

\* C7: if the artifact is absent when it is loaded, the load raises a
\* file-not-found error that ends the run: no default model, no prediction,
\* no report.
C7_MissingArtifactStep ==
    (pc = "load" /\ artifact = "none") =>
        /\ pc' = "error"
        /\ err' = "FileNotFoundError"
        /\ model' = "none"
        /\ raw_output' = << >>
        /\ out' = out

C7_MissingArtifactFails ==
    /\ [](err = "FileNotFoundError" =>
            /\ pc = "error"
            /\ ~ENABLED NextEnv
            /\ artifact = "none"
            /\ model = "none"
            /\ raw_output = << >>
            /\ normalized = << >>
            /\ ReportPositions = {})
    /\ [](model # "none" => model \in {"earlier", "this"})
    /\ [][C7_MissingArtifactStep]_vars

C7_Witness ==
    /\ err = "FileNotFoundError"
    /\ Len(typed) = Len(ESSENTIAL_FEATURES)

\* C8: exactly 8 prompts are issued one after another, and the mapping
\* returned has the keys of ESSENTIAL_FEATURES in that order, the k-th value
\* being the number typed at the k-th prompt; the table's columns follow.
C8_InputMapping ==
    /\ Len(PromptLines) <= Len(ESSENTIAL_FEATURES)
    /\ Len(PromptLines) = Len(typed)
    /\ user_input # << >> =>
          /\ Len(PromptLines) = 8
          /\ [i \in 1..Len(user_input) |-> user_input[i].key]
                = ESSENTIAL_FEATURES
          /\ \A k \in 1..Len(user_input) :
                /\ user_input[k].value = ParseFloat(typed[k])
                /\ typed[k] = <<"1">> =>
                      user_input[k].value = [num |-> 1, den |-> 1]
                /\ typed[k] = <<"-", "2", ".", "5">> =>
                      user_input[k].value = [num |-> -25, den |-> 10]
    /\ pc \in {"frame", "load", "predict", "normalize", "report", "done"}
          => user_input # << >>
    /\ pc \in {"load", "predict", "normalize", "report", "done"} =>
          /\ df.columns = ESSENTIAL_FEATURES
          /\ df.row = [k \in 1..Len(typed) |-> ParseFloat(typed[k])]

C8_Witness ==
    /\ pc = "predict"
    /\ typed[1] = <<"1">>
    /\ typed[2] = <<"-", "2", ".", "5">>
    /\ df.columns[2] = "pl_orbper"
    /\ df.row[2] = [num |-> -25, den |-> 10]

\* C9: the trainer writes the artifact and its confirmation before the first
\* prompt and before the load, so the load finds the artifact and the model
\* used is the one trained in this run, also in runs that abort on input.
C9_TrainBeforeUse ==
    /\ \A i \in 1..Len(out) :
          (IsPrompt(out[i]) \/ out[i] = EnterLine)
             => \E j \in 1..(i - 1) : out[j] = TrainedLine
    /\ pc \in {"get_input", "prompt", "frame", "load", "predict",
               "normalize", "report", "done"} => artifact = "this"
    /\ err # "FileNotFoundError"
    /\ model # "none" => model = "this"
    /\ pc \in {"predict", "normalize", "report", "done"} => model = "this"
    /\ err = "ValueError" => artifact = "this"

C9_Witness ==
    /\ pc = "predict"
    /\ model = "this"
    /\ artifact = "this"

\* C10: a NaN percentage fails all three comparisons and is reported as
\* "Trace presence"; an all-zero raw vector gives ten "Trace presence"
\* lines and the run finishes without error.
C10_NaNIsTrace ==
    /\ \A i \in 1..Len(GasLines) :
          GasLines[i].percent.kind = "nan"
             => GasLines[i].descriptor = "Trace presence"
    /\ (raw_output = ZeroVector /\ pc = "done") =>
          /\ Descriptors = [i \in 1..Len(GASES) |-> "Trace presence"]
          /\ err = "none"
    /\ (raw_output = ZeroVector /\ pc = "report") => ENABLED generate_report

C10_Witness ==
    /\ raw_output = ZeroVector
    /\ pc = "done"
    /\ \A i \in 1..Len(GasLines) : GasLines[i].percent = NaN
    /\ Len(GasLines) = Len(GASES)

====
